---- MODULE Spec2Model ----
(***************************************************************************)
(* Model of the catalog refresh-and-cache pipeline of src/bot.py:          *)
(* parse_data_file, fetch_data, get_latest_commit, the auto_update_data    *)
(* loop and the on_ready handler.                                          *)
(*                                                                         *)
(* Python strings are modelled as tuples of one-character strings, so that *)
(* strip / split / startswith / upper are computed, not assumed.           *)
(* The coroutines run on one asyncio event loop: the code between two      *)
(* awaits runs without interruption, so every action below is one such     *)
(* segment, from the completion of an await up to the next await.          *)
(***************************************************************************)
EXTENDS Integers, Sequences, FiniteSets, TLC

\* ------------------------------------------------------------------------
\* Bounds of the model
\* ------------------------------------------------------------------------
\* number of lines of a generated document (parser specification)
MaxLines == 3

\* ------------------------------------------------------------------------
\* String helpers (Python str methods on tuples of characters)
\* ------------------------------------------------------------------------
NL == "\n"

\* characters removed by str.strip()
Whitespace == {" ", "\t", "\r", NL}

LowerLetters == <<"a", "f", "q", "p", "r", "o", "d", "u", "c", "t", "s", "x">>

UpperLetters == <<"A", "F", "Q", "P", "R", "O", "D", "U", "C", "T", "S", "X">>

UpperChar(c) ==
    IF \E i \in 1..Len(LowerLetters) : LowerLetters[i] = c
    THEN UpperLetters[CHOOSE i \in 1..Len(LowerLetters) : LowerLetters[i] = c]
    ELSE c

\* str.upper()
Upper(s) == [i \in 1..Len(s) |-> UpperChar(s[i])]

RECURSIVE LStrip(_)
LStrip(s) ==
    IF s = <<>> THEN s
    ELSE IF Head(s) \in Whitespace THEN LStrip(Tail(s)) ELSE s

RECURSIVE RStrip(_)
RStrip(s) ==
    IF s = <<>> THEN s
    ELSE IF s[Len(s)] \in Whitespace THEN RStrip(SubSeq(s, 1, Len(s) - 1)) ELSE s

\* str.strip()
Strip(s) == RStrip(LStrip(s))

\* str.startswith(c) for a one-character prefix
StartsWith(s, c) == Len(s) >= 1 /\ s[1] = c

\* str.endswith(c) for a one-character suffix
EndsWith(s, c) == Len(s) >= 1 /\ s[Len(s)] = c

\* c in s
Contains(s, c) == \E i \in 1..Len(s) : s[i] = c

\* str.split(sep, maxsplit); maxsplit = -1 means no limit
RECURSIVE SplitFrom(_, _, _, _)
SplitFrom(s, sep, maxsplit, cur) ==
    IF s = <<>> THEN <<cur>>
    ELSE IF Head(s) = sep /\ maxsplit # 0
         THEN <<cur>> \o SplitFrom(Tail(s), sep, maxsplit - 1, <<>>)
         ELSE SplitFrom(Tail(s), sep, maxsplit, Append(cur, Head(s)))

Split(s, sep, maxsplit) == SplitFrom(s, sep, maxsplit, <<>>)

\* [p.strip() for p in parts]
StripAll(parts) == [i \in 1..Len(parts) |-> Strip(parts[i])]

\* "\n".join(lines)
RECURSIVE Join(_)
Join(lines) ==
    IF lines = <<>> THEN <<>>
    ELSE IF Len(lines) = 1 THEN lines[1]
    ELSE lines[1] \o <<NL>> \o Join(Tail(lines))

\* ------------------------------------------------------------------------
\* parse_data_file
\* ------------------------------------------------------------------------
SecFAQ == <<"F", "A", "Q">>

SecPRODUCTS == <<"P", "R", "O", "D", "U", "C", "T", "S">>

\* current_section = None
NoSection == [isset |-> FALSE, name |-> <<>>]

\* products, faq_items, categories = [], [], {} ; current_section = None
\* (categories: a dict, kept as its entries in insertion order)
ParseStart ==
    [products |-> <<>>, faq |-> <<>>, categories |-> <<>>,
     current_section |-> NoSection]

HasCategory(categories, c) ==
    \E i \in 1..Len(categories) : categories[i].category = c

\* if category not in categories: categories[category] = []
\* categories[category].append(product)
AddToCategory(categories, product) ==
    LET c == product.category
        withKey == IF HasCategory(categories, c) THEN categories
                   ELSE Append(categories, [category |-> c, items |-> <<>>])
    IN [i \in 1..Len(withKey) |->
          IF withKey[i].category = c
          THEN [withKey[i] EXCEPT !.items = Append(@, product)]
          ELSE withKey[i]]

\* the FAQ branch, splitting at every '|' instead of the first only
ParseFaqLineSplitAll(st, line) ==
    LET parts == StripAll(Split(line, "|", -1))
    IN IF Len(parts) >= 2
       THEN [st EXCEPT !.faq = Append(@, [question |-> parts[1], answer |-> parts[2]])]
       ELSE st

\* the FAQ branch of the loop body
ParseFaqLine(st, line) ==
    LET parts == StripAll(Split(line, "|", 1))
    IN IF Len(parts) >= 2
       THEN [st EXCEPT !.faq = Append(@, [question |-> parts[1], answer |-> parts[2]])]
       ELSE st

\* the PRODUCTS branch of the loop body
ParseProductLine(st, line) ==
    LET parts == StripAll(Split(line, "|", -1))
    IN IF Len(parts) >= 5
       THEN LET product == [category |-> parts[1], name |-> parts[2],
                            price |-> parts[3], desc |-> parts[4],
                            stock |-> parts[5]]
            IN [st EXCEPT !.products = Append(@, product),
                          !.categories = AddToCategory(@, product)]
       ELSE st

\* one iteration of "for line in lines"
ParseLine(st, raw) ==
    LET line == Strip(raw)
    IN IF line = <<>> \/ StartsWith(line, "#") THEN st
       ELSE IF StartsWith(line, "[") /\ EndsWith(line, "]")
       THEN [st EXCEPT !.current_section =
                [isset |-> TRUE, name |-> Upper(SubSeq(line, 2, Len(line) - 1))]]
       ELSE IF st.current_section.isset /\ st.current_section.name = SecFAQ
               /\ Contains(line, "|")
       THEN ParseFaqLine(st, line)
       ELSE IF st.current_section.isset /\ st.current_section.name = SecPRODUCTS
               /\ Contains(line, "|")
       THEN ParseProductLine(st, line)
       ELSE st

RECURSIVE ParseLoop(_, _, _)
ParseLoop(lines, i, st) ==
    IF i > Len(lines) THEN st
    ELSE ParseLoop(lines, i + 1, ParseLine(st, lines[i]))

\* parse_data_file(content)
parse_data_file(content) ==
    LET lines == Split(Strip(content), NL, -1)
        st == ParseLoop(lines, 1, ParseStart)
    IN [products |-> st.products, faq |-> st.faq, categories |-> st.categories]

\* ------------------------------------------------------------------------
\* Responses of the two endpoints
\* ------------------------------------------------------------------------
LineProducts == <<"[", "P", "R", "O", "D", "U", "C", "T", "S", "]">>

LineFaq == <<"[", "F", "A", "Q", "]">>

LineProductA == <<"A", "|", "n", "|", "p", "|", "d", "|", "s">>

LineProductB == <<"B", "|", "m", "|", "p", "|", "d", "|", "0">>

LineProductShort == <<"A", "|", "n", "|", "p", "|", "d">>

LineFaq1 == <<"q", "|", "a">>

LineFaq2 == <<"r", "|", "b">>

\* the texts DATA_URL can answer with: an empty file, a file with no valid
\* record, FAQ only, products of two categories and FAQ
Docs ==
    << <<>>,
       Join(<<LineProducts, LineProductShort, LineFaq2>>),
       Join(<<LineFaq, LineFaq2>>),
       Join(<<LineProducts, LineProductB, LineProductA, LineProductB,
              LineFaq, LineFaq1, LineFaq2>>) >>

DocIds == 1..Len(Docs)

None == "None"

\* the values the "sha" field of the revision endpoint takes
Markers == {"a", "b"}

\* truth value of an Optional[str] in "if new_commit and ..."
Truthy(m) == m # None /\ m # ""

\* ------------------------------------------------------------------------
\* State
\* ------------------------------------------------------------------------
VARIABLES
    data_cache,          \* data_cache: products and faq
    product_categories,  \* product_categories, entries in insertion order
    last_commit_hash,    \* last_commit_hash: None or a marker
    is_running,          \* auto_update_data.is_running()
    UPDATE_CHANNEL_ID,   \* None or the configured channel id
    pc,                  \* the await each coroutine is suspended at
    attempt,             \* loop variable of the retry loop in progress
    new_commit,          \* local new_commit of auto_update_data
    start_empty,         \* history: the cache was empty when the cycle began
    ev,                  \* history: what the last step did
    content,             \* parser specification: the document
    parsed,              \* parser specification: its parse, once computed
    tanya_pc,            \* where the tanya command handler is
    menu,                \* the options of the FAQ dropdown last sent
    sel                  \* history: what the last dropdown selection got

vars == <<data_cache, product_categories, last_commit_hash, is_running,
          UPDATE_CHANNEL_ID, pc, attempt, new_commit, start_empty, ev,
          content, parsed, tanya_pc, menu, sel>>

\* no selection made in the dropdown yet
NoSelection == [made |-> FALSE, raised |-> FALSE, shown |-> <<>>, got |-> <<>>]

AU == "auto_update_data"

RH == "on_ready"

\* one auto_update_data loop; one on_ready handler at a time, which the
\* gateway may fire again (reconnect) once the previous one has finished
Procs == {AU, RH}

\* retries: int = 3
retries == 3

\* ev records, for the step just taken: the coroutine p that took it, the
\* status and body of the response it handled (status 0: none, or the
\* request raised), the value get_latest_commit (glc) or fetch_data (fd)
\* returned in it, the delay slept before a retry request it issued (gap),
\* whether it issued the first DATA_URL request of a call (dataReq) or a
\* notification (notified), whether p's cycle began with an empty cache
\* (empty0) and last_commit_hash as the step found it (hash0)
NoEvent ==
    [p |-> "none", glc |-> "n/a", fd |-> "n/a", status |-> 0, body |-> 0,
     gap |-> -1, dataReq |-> FALSE, notified |-> FALSE, empty0 |-> FALSE,
     hash0 |-> "None"]

Event(p, status, body) ==
    [NoEvent EXCEPT !.p = p, !.status = status, !.body = body,
                    !.empty0 = start_empty[p], !.hash0 = last_commit_hash]

CacheEmpty == data_cache.products = <<>> /\ data_cache.faq = <<>>

EmptyParse == [products |-> <<>>, faq |-> <<>>, categories |-> <<>>]

Unparsed == [done |-> FALSE, result |-> EmptyParse]

Init ==
    /\ data_cache = [products |-> <<>>, faq |-> <<>>]
    /\ product_categories = <<>>
    /\ last_commit_hash = None
    /\ is_running = FALSE
    /\ UPDATE_CHANNEL_ID \in {None, "42"}
    /\ pc = [p \in Procs |-> "idle"]
    /\ attempt = [p \in Procs |-> 0]
    /\ new_commit = None
    /\ start_empty = [p \in Procs |-> FALSE]
    /\ ev = NoEvent
    /\ content = <<>>
    /\ parsed = Unparsed
    /\ tanya_pc = "idle"
    /\ menu = <<>>
    /\ sel = NoSelection

\* ------------------------------------------------------------------------
\* The program state as one value, and the code segments as functions on it
\* ------------------------------------------------------------------------
Cur ==
    [data_cache |-> data_cache, product_categories |-> product_categories,
     last_commit_hash |-> last_commit_hash, is_running |-> is_running,
     pc |-> pc, attempt |-> attempt, new_commit |-> new_commit,
     start_empty |-> start_empty, ev |-> ev]

Apply(next) == \E s \in {next} :
    /\ data_cache' = s.data_cache
    /\ product_categories' = s.product_categories
    /\ last_commit_hash' = s.last_commit_hash
    /\ is_running' = s.is_running
    /\ pc' = s.pc
    /\ attempt' = s.attempt
    /\ new_commit' = s.new_commit
    /\ start_empty' = s.start_empty
    /\ ev' = s.ev
    /\ UNCHANGED <<UPDATE_CHANNEL_ID, content, parsed, tanya_pc, menu, sel>>

\* the state in which p starts a segment that handles a response
Handling(p, status, body) == [Cur EXCEPT !.ev = Event(p, status, body)]

\* the coroutine of p has returned
Finish(s, p) ==
    [s EXCEPT !.pc[p] = "idle", !.attempt[p] = 0, !.start_empty[p] = FALSE,
              !.new_commit = IF p = AU THEN None ELSE @]

\* get_latest_commit(): for attempt in range(retries), first request
CallGetLatestCommit(s, p) ==
    [s EXCEPT !.pc[p] = "commit_get", !.attempt[p] = 0]

\* fetch_data(): for attempt in range(retries), first request
CallFetchData(s, p) ==
    [s EXCEPT !.pc[p] = "data_get", !.attempt[p] = 0, !.ev.dataReq = TRUE]

\* await asyncio.sleep(2 ** attempt)
Backoff(a) == 2 ^ a

\* the exception escapes auto_update_data instead, and the loop stops
NotifyRaisedEscapes(s, p) == [Finish(s, p) EXCEPT !.is_running = FALSE]

\* what an exception raised while notifying does to the loop: it is caught
\* by the inner except, the cycle ends and the loop keeps running
NotifyRaised(s, p) == Finish(s, p)

\* auto_update_data after "if await fetch_data():" ; chan is the outcome of
\* bot.get_channel(int(UPDATE_CHANNEL_ID)): "found", "missing" or "raises"
AfterFetchDataAU(s, ok, chan) ==
    IF ok
    THEN LET s1 == [s EXCEPT !.last_commit_hash = s.new_commit]
         IN IF UPDATE_CHANNEL_ID # None
            THEN IF chan = "found"
                 THEN [s1 EXCEPT !.pc[AU] = "notify", !.ev.notified = TRUE]
                 ELSE IF chan = "raises" THEN NotifyRaised(s1, AU)
                 ELSE Finish(s1, AU)
            ELSE Finish(s1, AU)
    ELSE Finish(s, AU)

\* on_ready after "await fetch_data()": start the loop, set the presence
AfterFetchDataRH(s) ==
    [s EXCEPT !.is_running = TRUE, !.pc[RH] = "presence"]

\* fetch_data returns ok to its caller
ReturnFetchData(s, p, ok, chan) ==
    LET s1 == [s EXCEPT !.ev.fd = IF ok THEN "True" ELSE "False"]
    IN IF p = AU THEN AfterFetchDataAU(s1, ok, chan) ELSE AfterFetchDataRH(s1)

\* auto_update_data after "new_commit = await get_latest_commit()"
AfterGetLatestCommitAU(s, r) ==
    LET s1 == [s EXCEPT !.new_commit = r]
    IN IF Truthy(r) /\ r # s.last_commit_hash
       THEN CallFetchData(s1, AU)
       ELSE Finish(s1, AU)

\* on_ready: "last_commit_hash = await get_latest_commit()" ; fetch_data()
\* on_ready dropping the snapshot before it fetches again
AfterGetLatestCommitRHClears(s, r) ==
    CallFetchData([s EXCEPT !.last_commit_hash = r,
                            !.data_cache = [products |-> <<>>, faq |-> <<>>],
                            !.product_categories = <<>>], RH)

AfterGetLatestCommitRH(s, r) ==
    CallFetchData([s EXCEPT !.last_commit_hash = r], RH)

\* get_latest_commit returns r to its caller
ReturnGetLatestCommit(s, p, r) ==
    LET s1 == [s EXCEPT !.ev.glc = r]
    IN IF p = AU THEN AfterGetLatestCommitAU(s1, r) ELSE AfterGetLatestCommitRH(s1, r)

\* the adoption without "global product_categories": the index is not replaced
AdoptCacheOnly(s, result) ==
    [s EXCEPT !.data_cache = [products |-> result.products, faq |-> result.faq]]

\* data_cache["products"] = ... ; data_cache["faq"] = ... ;
\* product_categories = parsed["categories"]
Adopt(s, result) ==
    [s EXCEPT !.data_cache = [products |-> result.products, faq |-> result.faq],
              !.product_categories = result.categories]

\* fetch_data adopting whatever was parsed, empty or not
FetchDataOkNoCheck(s, p, result, chan) ==
    ReturnFetchData(Adopt(s, result), p, TRUE, chan)

\* fetch_data: res.status_code == 200 and result = parse_data_file(res.text)
FetchDataOk(s, p, result, chan) ==
    IF result.products # <<>> \/ result.faq # <<>>
    THEN ReturnFetchData(Adopt(s, result), p, TRUE, chan)
    ELSE ReturnFetchData(s, p, FALSE, chan)

\* fetch_data: any other status: a warning, then the next iteration at once
FetchDataStatus(s, p) ==
    IF s.attempt[p] + 1 < retries
    THEN [s EXCEPT !.attempt[p] = @ + 1, !.ev.gap = 0]
    ELSE ReturnFetchData(s, p, FALSE, "found")

\* fetch_data: the request raised: log, sleep unless it was the last attempt
FetchDataError(s, p) ==
    IF s.attempt[p] < retries - 1
    THEN [s EXCEPT !.pc[p] = "data_sleep"]
    ELSE ReturnFetchData(s, p, FALSE, "found")

\* the sleep is over: next iteration of the retry loop
NextAttempt(s, p, getting) ==
    [s EXCEPT !.pc[p] = getting, !.ev.gap = Backoff(s.attempt[p]),
              !.attempt[p] = @ + 1]

\* get_latest_commit: status 200, res.json().get("sha") is sha (or None)
GetCommitOk(s, p, sha) == ReturnGetLatestCommit(s, p, sha)

\* get_latest_commit: any other status
GetCommitStatus(s, p) ==
    IF s.attempt[p] + 1 < retries
    THEN [s EXCEPT !.attempt[p] = @ + 1, !.ev.gap = 0]
    ELSE ReturnGetLatestCommit(s, p, None)

\* get_latest_commit: the request or res.json() raised
GetCommitError(s, p) ==
    IF s.attempt[p] < retries - 1
    THEN [s EXCEPT !.pc[p] = "commit_sleep"]
    ELSE ReturnGetLatestCommit(s, p, None)

\* ------------------------------------------------------------------------
\* Actions: one per segment between two awaits
\* ------------------------------------------------------------------------
\* the gateway fires on_ready (at start-up, and again after a reconnect)
OnReady ==
    /\ pc[RH] = "idle"
    /\ Apply(CallGetLatestCommit(
                [Cur EXCEPT !.ev = [Event(RH, 0, 0) EXCEPT !.empty0 = CacheEmpty],
                            !.start_empty[RH] = CacheEmpty], RH))

\* the loop timer fires: an iteration of auto_update_data begins
Tick ==
    /\ is_running
    /\ pc[AU] = "idle"
    /\ Apply(CallGetLatestCommit(
                [Cur EXCEPT !.ev = [Event(AU, 0, 0) EXCEPT !.empty0 = CacheEmpty],
                            !.start_empty[AU] = CacheEmpty], AU))

CommitOk(p) ==
    /\ pc[p] = "commit_get"
    /\ \E sha \in Markers \cup {None} : Apply(GetCommitOk(Handling(p, 200, 0), p, sha))

CommitStatus(p) ==
    /\ pc[p] = "commit_get"
    /\ Apply(GetCommitStatus(Handling(p, 500, 0), p))

CommitError(p) ==
    /\ pc[p] = "commit_get"
    /\ Apply(GetCommitError(Handling(p, 0, 0), p))

CommitWake(p) ==
    /\ pc[p] = "commit_sleep"
    /\ Apply(NextAttempt([Cur EXCEPT !.ev = Event(p, 0, 0)], p, "commit_get"))

DataOk(p) ==
    /\ pc[p] = "data_get"
    /\ \E d \in DocIds :
       \E result \in {parse_data_file(Docs[d])} :
       \E chan \in IF p = AU /\ UPDATE_CHANNEL_ID # None
                   THEN {"found", "missing", "raises"} ELSE {"found"} :
          Apply(FetchDataOk(Handling(p, 200, d), p, result, chan))

DataStatus(p) ==
    /\ pc[p] = "data_get"
    /\ Apply(FetchDataStatus(Handling(p, 500, 0), p))

DataError(p) ==
    /\ pc[p] = "data_get"
    /\ Apply(FetchDataError(Handling(p, 0, 0), p))

DataWake(p) ==
    /\ pc[p] = "data_sleep"
    /\ Apply(NextAttempt([Cur EXCEPT !.ev = Event(p, 0, 0)], p, "data_get"))

\* channel.send returned
NotifySent ==
    /\ pc[AU] = "notify"
    /\ Apply(Finish([Cur EXCEPT !.ev = Event(AU, 0, 0)], AU))

\* channel.send raised
NotifyFailed ==
    /\ pc[AU] = "notify"
    /\ Apply(NotifyRaised([Cur EXCEPT !.ev = Event(AU, 0, 0)], AU))

\* bot.change_presence returned or raised: on_ready is over
PresenceDone ==
    /\ pc[RH] = "presence"
    /\ Apply(Finish([Cur EXCEPT !.ev = Event(RH, 0, 0)], RH))

Next ==
    \/ OnReady
    \/ Tick
    \/ \E p \in Procs : CommitOk(p)
    \/ \E p \in Procs : CommitStatus(p)
    \/ \E p \in Procs : CommitError(p)
    \/ \E p \in Procs : CommitWake(p)
    \/ \E p \in Procs : DataOk(p)
    \/ \E p \in Procs : DataStatus(p)
    \/ \E p \in Procs : DataError(p)
    \/ \E p \in Procs : DataWake(p)
    \/ NotifySent
    \/ NotifyFailed
    \/ PresenceDone

Spec == Init /\ [][Next]_vars

\* ------------------------------------------------------------------------
\* Parser specification: parse_data_file applied to generated documents
\* ------------------------------------------------------------------------
\* the lines a generated document is made of
LineSet ==
    { << " " >>,
      << "#", "c", "|", "x" >>,
      LineFaq,
      << " ", "[", "f", "a", "q", "]", " " >>,
      LineProducts,
      << "[", "x", "]" >>,
      << "[", "q", "|", "a", "]" >>,
      LineFaq1,
      << "q", " ", "|", " ", "a", "|", "b" >>,
      << "q" >>,
      LineProductA,
      << " ", "B", " ", "|", "m", "|", "p", "|", "d", "|", "0", "\r" >>,
      LineProductShort,
      << "A", "|", "n", "|", "p", "|", "d", "|", "s", "|", "x" >> }

Documents == { Join(ls) : ls \in UNION { [1..n -> LineSet] : n \in 1..MaxLines } }

InitParse ==
    /\ data_cache = [products |-> <<>>, faq |-> <<>>]
    /\ product_categories = <<>>
    /\ last_commit_hash = None
    /\ is_running = FALSE
    /\ UPDATE_CHANNEL_ID = None
    /\ pc = [p \in Procs |-> "idle"]
    /\ attempt = [p \in Procs |-> 0]
    /\ new_commit = None
    /\ start_empty = [p \in Procs |-> FALSE]
    /\ ev = NoEvent
    /\ content \in Documents
    /\ parsed = Unparsed
    /\ tanya_pc = "idle"
    /\ menu = <<>>
    /\ sel = NoSelection

\* parsed = parse_data_file(res.text)
ParseStep ==
    /\ ~parsed.done
    /\ parsed' = [done |-> TRUE, result |-> parse_data_file(content)]
    /\ UNCHANGED <<data_cache, product_categories, last_commit_hash, is_running,
                   UPDATE_CHANNEL_ID, pc, attempt, new_commit, start_empty, ev,
                   content, tanya_pc, menu, sel>>

NextParse == ParseStep

SpecParse == InitParse /\ [][NextParse]_vars

\* ------------------------------------------------------------------------
\* What a document denotes, read off the positions of its separators
\* ------------------------------------------------------------------------
SepPos(s, c) == {i \in 1..Len(s) : s[i] = c}

\* the k-th smallest element of a set of numbers
Nth(S, k) == CHOOSE i \in S : Cardinality({j \in S : j < i}) = k - 1

\* the k-th piece of s between occurrences of c
Field(s, c, k) ==
    LET P == SepPos(s, c)
        from == IF k = 1 THEN 1 ELSE Nth(P, k - 1) + 1
        to == IF k > Cardinality(P) THEN Len(s) ELSE Nth(P, k) - 1
    IN SubSeq(s, from, to)

Trim(s) ==
    LET I == {i \in 1..Len(s) : s[i] \notin Whitespace}
    IN IF I = {} THEN <<>>
       ELSE SubSeq(s, CHOOSE i \in I : \A j \in I : i <= j,
                      CHOOSE i \in I : \A j \in I : i >= j)

LinesOf(c) == [k \in 1..(Cardinality(SepPos(c, NL)) + 1) |-> Trim(Field(c, NL, k))]

IsSkipped(l) == l = <<>> \/ l[1] = "#"

IsHeader(l) == ~IsSkipped(l) /\ l[1] = "[" /\ l[Len(l)] = "]"

\* the last header before line i names the section
InSection(L, i, name) ==
    \E j \in 1..(i - 1) :
        /\ IsHeader(L[j])
        /\ \A k \in (j + 1)..(i - 1) : ~IsHeader(L[k])
        /\ Upper(SubSeq(L[j], 2, Len(L[j]) - 1)) = name

IsFaqLine(L, i) ==
    /\ ~IsSkipped(L[i]) /\ ~IsHeader(L[i])
    /\ InSection(L, i, SecFAQ)
    /\ SepPos(L[i], "|") # {}

IsProductLine(L, i) ==
    /\ ~IsSkipped(L[i]) /\ ~IsHeader(L[i])
    /\ InSection(L, i, SecPRODUCTS)
    /\ Cardinality(SepPos(L[i], "|")) >= 4

FaqOf(l) ==
    LET bar == Nth(SepPos(l, "|"), 1)
    IN [question |-> Trim(SubSeq(l, 1, bar - 1)),
        answer |-> Trim(SubSeq(l, bar + 1, Len(l)))]

ProductOf(l) ==
    [category |-> Trim(Field(l, "|", 1)), name |-> Trim(Field(l, "|", 2)),
     price |-> Trim(Field(l, "|", 3)), desc |-> Trim(Field(l, "|", 4)),
     stock |-> Trim(Field(l, "|", 5))]

ExpectedFaq(L) ==
    LET I == {i \in 1..Len(L) : IsFaqLine(L, i)}
    IN [k \in 1..Cardinality(I) |-> FaqOf(L[Nth(I, k)])]

ExpectedProducts(L) ==
    LET I == {i \in 1..Len(L) : IsProductLine(L, i)}
    IN [k \in 1..Cardinality(I) |-> ProductOf(L[Nth(I, k)])]

\* distinct categories in first-seen order, each with its products in order
CategoryIndexOf(products) ==
    LET F == {i \in 1..Len(products) :
                 \A j \in 1..(i - 1) : products[j].category # products[i].category}
    IN [k \in 1..Cardinality(F) |->
          LET c == products[Nth(F, k)].category
          IN [category |-> c,
              items |-> SelectSeq(products, LAMBDA x : x.category = c)]]

\* C10: parse_data_file yields exactly the in-order image of the valid
\* lines of the document: one FAQ item per FAQ-section line with a '|'
\* (split at the first '|'), one product per PRODUCTS-section line with at
\* least five fields, nothing for any other line, and a category index of
\* the distinct categories in first-seen order, each list in input order.
C10_ParseIsImageOfValidLines ==
    parsed.done =>
        LET L == LinesOf(content)
        IN /\ parsed.result.faq = ExpectedFaq(L)
           /\ parsed.result.products = ExpectedProducts(L)
           /\ parsed.result.categories = CategoryIndexOf(ExpectedProducts(L))

\* a document whose malformed lines (a FAQ line without '|', header-shaped
\* text, a four-field product) sit between valid records has been parsed
C10_Witness ==
    /\ parsed.done
    /\ Len(parsed.result.products) + Len(parsed.result.faq) >= 1
    /\ LET L == LinesOf(content)
       IN /\ Len(L) = MaxLines
          /\ \E i \in 2..Len(L) :
                /\ ~IsSkipped(L[i]) /\ ~IsHeader(L[i])
                /\ ~IsFaqLine(L, i) /\ ~IsProductLine(L, i)
                /\ \E j \in 1..(i - 1) : IsFaqLine(L, j) \/ IsProductLine(L, j)

\* ------------------------------------------------------------------------
\* Fairness: every request, sleep and send of the loop eventually completes,
\* and the timer of the loop eventually fires
\* ------------------------------------------------------------------------
AUStep ==
    \/ CommitOk(AU) \/ CommitStatus(AU) \/ CommitError(AU) \/ CommitWake(AU)
    \/ DataOk(AU) \/ DataStatus(AU) \/ DataError(AU) \/ DataWake(AU)
    \/ NotifySent \/ NotifyFailed

FairSpec == Spec /\ WF_vars(AUStep) /\ WF_vars(Tick)

\* ------------------------------------------------------------------------
\* Properties
\* ------------------------------------------------------------------------
\* what a command handler reads
Snapshot ==
    [products |-> data_cache.products, faq |-> data_cache.faq,
     categories |-> product_categories]

NonEmpty(result) == result.products # <<>> \/ result.faq # <<>>

\* the step just taken handled a 200 response whose parse has a record
AdoptableResponse(e) == e.status = 200 /\ NonEmpty(parse_data_file(Docs[e.body]))

\* C1: a fetch_data call replaces the cache by the parsed result and returns
\* True exactly when the response was a 200 whose parse has a product or a
\* FAQ item; in every other outcome it returns False and leaves the three
\* cache parts as they were, and nothing else ever writes the cache.
C1_FetchDataOutcome ==
    [][ /\ ev'.fd # "n/a" =>
            IF AdoptableResponse(ev')
            THEN ev'.fd = "True" /\ Snapshot' = parse_data_file(Docs[ev'.body])
            ELSE ev'.fd = "False" /\ Snapshot' = Snapshot
        /\ Snapshot' # Snapshot => ev'.fd = "True" ]_vars

\* an empty parse was rejected while the cache held data, which it still holds
C1_Witness ==
    /\ ev.fd = "False" /\ ev.status = 200
    /\ ~CacheEmpty

\* C2: a tick of auto_update_data that began with an empty cache issues the
\* dataset request whatever the revision check returned.
C2_EmptyCacheForcesFetch ==
    (ev.p = AU /\ ev.glc # "n/a" /\ ev.empty0) => ev.dataReq

\* C3: a cycle that began with a non-empty cache issues no dataset request
\* when the revision fetch failed or returned last_commit_hash.
C3_NoFetchWithoutChange ==
    (ev.glc # "n/a" /\ ~ev.empty0 /\ (ev.glc = None \/ ev.glc = ev.hash0))
        => ~ev.dataReq

\* the marker a cycle of p has fetched
FetchedMarker(p) == IF p = AU THEN new_commit ELSE last_commit_hash

\* C4: last_commit_hash changes only in a step in which fetch_data adopted
\* a snapshot, and then becomes the marker fetched in that cycle.
C4_MarkerFollowsAdoption ==
    [][ last_commit_hash' # last_commit_hash =>
            /\ ev'.fd = "True"
            /\ \E p \in Procs : ev'.p = p /\ last_commit_hash' = FetchedMarker(p) ]_vars

\* the products of the index, category by category, are the cached products
IndexMatchesProducts(snap) ==
    LET cats == snap.categories
    IN /\ \A i, j \in 1..Len(cats) : cats[i].category = cats[j].category => i = j
       /\ \A i \in 1..Len(cats) :
             /\ cats[i].items # <<>>
             /\ cats[i].items =
                  SelectSeq(snap.products, LAMBDA x : x.category = cats[i].category)
       /\ \A k \in 1..Len(snap.products) :
             \E i \in 1..Len(cats) : cats[i].category = snap.products[k].category

\* C5: at every suspension point the cached snapshot is consistent: the
\* index holds exactly the cached products, each under its own category in
\* the same order, and products, faq and index come from one parse.
C5_SnapshotConsistent ==
    /\ IndexMatchesProducts(Snapshot)
    /\ \/ Snapshot = EmptyParse
       \/ \E d \in DocIds : Snapshot = parse_data_file(Docs[d])

\* a snapshot with two categories has replaced an earlier snapshot
C5_Witness ==
    /\ ev.fd = "True" /\ ~ev.empty0
    /\ Len(product_categories) = 2

InRefresh(p) == pc[p] \in {"commit_get", "commit_sleep", "data_get", "data_sleep"}

\* C6: at most one refresh (revision check, dataset fetch, parse, replace)
\* is in flight at any time.
C6_SingleRefresh == Cardinality({p \in Procs : InRefresh(p)}) <= 1

\* C7: every cycle of auto_update_data completes (the loop is idle again and
\* again), with at most 3 requests per call; no failure stops the loop, and
\* once it runs, a next tick always comes.
C7_CycleCompletes ==
    /\ []<>(pc[AU] = "idle")
    /\ [](attempt[AU] < retries)
    /\ [][is_running => is_running']_vars
    /\ []<>(is_running => (pc[AU] = "commit_get" /\ attempt[AU] = 0))

\* a cycle whose three revision requests all failed is over, and the loop
\* is still running
C7_Witness ==
    /\ is_running /\ pc[AU] = "idle"
    /\ ev.p = AU /\ ev.glc = None /\ ev.status # 200

\* C8: a retry request follows the failed attempt k after a delay of
\* 2^(k-1), whatever the failure was, and a call whose attempts all failed
\* returns None / False.
C8_BackoffBetweenAttempts ==
    /\ ev.gap # -1 => ev.gap = 2 ^ (attempt[ev.p] - 1)
    /\ (ev.glc # "n/a" /\ ev.status # 200) => ev.glc = None
    /\ (ev.fd # "n/a" /\ ev.status # 200) => ev.fd = "False"

\* C9: a notification is sent only in a cycle that adopted a snapshot, with
\* UPDATE_CHANNEL_ID configured, and whose cache was non-empty at its start.
C9_NotifyOnlyNonBootstrap ==
    ev.notified => (ev.fd = "True" /\ UPDATE_CHANNEL_ID # None /\ ~ev.empty0)

\* ------------------------------------------------------------------------
\* The tanya command next to the refresh
\* ------------------------------------------------------------------------
refreshVars ==
    <<data_cache, product_categories, last_commit_hash, is_running,
      UPDATE_CHANNEL_ID, pc, attempt, new_commit, start_empty, ev,
      content, parsed>>

\* how the handler calls the AI: "response = model.generate_content(prompt)",
\* a plain call, neither awaited nor handed to an executor
AICallSuspends == FALSE

\* the thread of the event loop is inside a call that does not suspend
LoopBusy == tanya_pc = "ai_call" /\ ~AICallSuspends

\* a user sends !tanya: without products the handler replies at once,
\* otherwise it enters "async with ctx.typing()"
TanyaCommand ==
    /\ ~LoopBusy
    /\ tanya_pc = "idle"
    /\ tanya_pc' = IF data_cache.products = <<>> THEN "reply" ELSE "typing"
    /\ UNCHANGED <<refreshVars, menu, sel>>

\* the typing indicator is on: the handler reads the cache, builds the
\* prompt and calls model.generate_content
TanyaCallAI ==
    /\ ~LoopBusy
    /\ tanya_pc = "typing"
    /\ tanya_pc' = "ai_call"
    /\ UNCHANGED <<refreshVars, menu, sel>>

\* generate_content returned or raised: the handler awaits ctx.reply
TanyaAIDone ==
    /\ tanya_pc = "ai_call"
    /\ tanya_pc' = "reply"
    /\ UNCHANGED <<refreshVars, menu, sel>>

\* ctx.reply returned: the handler is over
TanyaReplied ==
    /\ ~LoopBusy
    /\ tanya_pc = "reply"
    /\ tanya_pc' = "idle"
    /\ UNCHANGED <<refreshVars, menu, sel>>

\* a step of the refresh, which needs the thread of the event loop
RefreshStep == ~LoopBusy /\ Next

NextTanya ==
    \/ RefreshStep
    \/ TanyaCommand
    \/ TanyaCallAI
    \/ TanyaAIDone
    \/ TanyaReplied

SpecTanya == Init /\ [][NextTanya]_vars

\* C11: while an AI call of tanya is in flight the refresh can still take
\* steps: a cycle in progress can go on, and a due tick can start.
C11_RefreshRunsDuringAICall ==
    tanya_pc = "ai_call" =>
        /\ pc[AU] # "idle" => ENABLED (~LoopBusy /\ AUStep)
        /\ (is_running /\ pc[AU] = "idle") => ENABLED (~LoopBusy /\ Tick)

\* ------------------------------------------------------------------------
\* The faq command and its dropdown next to the refresh
\* ------------------------------------------------------------------------
\* a dropdown carries at most this many options: data_cache["faq"][:25]
MaxOptions == 25

\* s[:n]
Take(s, n) == IF Len(s) <= n THEN s ELSE SubSeq(s, 1, n)

\* a user sends !faq: without FAQ items the handler only replies; otherwise
\* it sends a dropdown with one option "Q<i>" per item of the cache, the
\* first 25 at most.  The model follows the dropdown sent last.
FaqCommand ==
    /\ data_cache.faq # <<>>
    /\ menu' = Take(data_cache.faq, MaxOptions)
    /\ sel' = NoSelection
    /\ UNCHANGED <<refreshVars, tanya_pc>>

FaqCommandNoData ==
    /\ data_cache.faq = <<>>
    /\ UNCHANGED vars

\* FAQSelect.callback for option "Q<i>": selected_idx = i - 1 indexes the
\* cache as it is now; an index past its end raises IndexError
Callback(i) ==
    IF i > Len(data_cache.faq)
    THEN [made |-> TRUE, raised |-> TRUE, shown |-> menu[i], got |-> <<>>]
    ELSE [made |-> TRUE, raised |-> FALSE, shown |-> menu[i],
          got |-> data_cache.faq[i]]

\* the user picks option i of the dropdown, within the 180 s of its view
FaqSelect ==
    \E i \in 1..Len(menu) :
        /\ sel' = Callback(i)
        /\ UNCHANGED <<refreshVars, tanya_pc, menu>>

NextFaq ==
    \/ Next
    \/ FaqCommand
    \/ FaqCommandNoData
    \/ FaqSelect

SpecFaq == Init /\ [][NextFaq]_vars

\* C12: a selection in the dropdown never fails and answers with the pair
\* shown for the option when the dropdown was rendered.
C12_SelectionAnswersRenderedPair ==
    sel.made => (~sel.raised /\ sel.got = sel.shown)

\* ------------------------------------------------------------------------
\* Stale data over no data
\* ------------------------------------------------------------------------
\* C13: once the cache holds a product or a FAQ item, no step empties it;
\* the category index, part of the same snapshot, is emptied only by the
\* adoption of a non-empty snapshot that has FAQ items and no product.
C13_NeverEmptyAgain ==
    [][/\ ~CacheEmpty => ~CacheEmpty'
       /\ (product_categories # <<>> /\ product_categories' = <<>>) =>
              /\ ev'.fd = "True"
              /\ data_cache'.products = <<>>
              /\ data_cache'.faq # <<>>]_vars

\* a reconnect found a filled cache, its fetch failed on every attempt, and
\* the cache is still filled
C13_Witness ==
    /\ ev.p = RH /\ ev.fd = "False" /\ ev.status # 200
    /\ ~ev.empty0
    /\ ~CacheEmpty
    /\ product_categories # <<>>

====
